---- MODULE Spec2Model ----
(***************************************************************************)
(* Model of wacryptolib's escrow layer: the in-memory key storage          *)
(* (DummyKeyStorage) and the EscrowApi that lazily provisions keypairs in  *)
(* it, called by several client threads.  One step of a thread is one      *)
(* access to the shared dictionary (a dict lookup or a dict store) together *)
(* with the thread-local computation that follows it.                      *)
(*                                                                         *)
(* Byte strings are modelled as naturals: 0 is b"", the PEM serialisation  *)
(* of the n-th generated keypair is 10n+1 (public) and 10n+2 (private),    *)
(* every other positive number is a byte string that is no PEM key.        *)
(* Messages and secrets are sequences of byte values.                      *)
(***************************************************************************)
EXTENDS Integers, Sequences, FiniteSets, TLC

VARIABLES
    _cached_keypairs,   \* DummyKeyStorage._cached_keypairs: (keychain_uid, key_type) -> keypair dict
    pc,                 \* per thread: the place its current call has reached, "idle" between calls
    call,               \* per thread: arguments, locals and (once returned) outcome of its current or last call
    generated,          \* number of keypairs generate_asymmetric_keypair has produced so far
    calls,              \* number of calls started so far
    clients,            \* how the clients call: "concurrent", or "sequential" (one call at a time)
    encryption_conf,    \* the encryption policy given to the cascade engine
    data,               \* the plaintext given to the cascade engine
    container,          \* the container the cascade engine produced, NoContainer before
    result,             \* what the decryption of the container gave, NoResult before
    buffer,             \* the records the aggregator holds, in the order they were added
    window_start,       \* from_datetime of the first record of the buffer, None when it is empty
    containers,         \* the containers the aggregator's flushes have produced, in order
    added,              \* number of add_record calls made so far
    authenticators,     \* per mounted path: what its authenticator folder (.key_storage) holds
    authentication_devices,  \* the device records the caller holds: the list last returned
    device_outcome      \* the last authentication device operation and how it ended

\* The state of the cascade engine and of its caller.
engine_vars == <<encryption_conf, data, container, result>>

\* The state of the records aggregator.
aggregator_vars == <<buffer, window_start, containers, added>>

\* The state of the authentication devices and of their caller.
device_vars == <<authenticators, authentication_devices, device_outcome>>

vars == <<_cached_keypairs, pc, call, generated, calls, clients, engine_vars, aggregator_vars,
          device_vars>>

-----------------------------------------------------------------------------
(* Bounds of the model *)

MaxCalls == 3
MaxGenerated == 2
MaxStrata == 2
MaxLayers == 2
MaxRecords == 3
MaxTime == 1

Threads == {"t1", "t2"}
KeychainUids == {"aaa", "aaaX"}
KeyTypes == {"RSA", "DSA"}
Messages == {<<1, 2>>}
Secrets == {<<>>, <<6, 7, 8>>}

-----------------------------------------------------------------------------
(* Python values *)

None == -1
EmptyBytes == 0

\* Truth value of a bytes-or-None value, as in `if not has_public_key`.
Truthy(value) == value # None /\ value # EmptyBytes

\* The byte strings of test_key_storage_base.
BytesPublic == 3
BytesPrivate == 4
BytesPublic2 == 5
BytesPrivate2 == 6

-----------------------------------------------------------------------------
(* wacryptolib.key_generation, wacryptolib.signature, wacryptolib.encryption: *)
(* the functions escrow.py imports.                                          *)

\* generate_asymmetric_keypair(key_type, serialize=True): the n-th fresh keypair, as PEM bytes.
generate_asymmetric_keypair(n) == [public_key |-> 10 * n + 1, private_key |-> 10 * n + 2]

\* Whether a byte string is the PEM serialisation of a key.
IsPem(key_pem) == key_pem >= 10 /\ key_pem % 10 \in {1, 2}

\* load_asymmetric_key_from_pem_bytestring(key_pem, key_type); defined when IsPem(key_pem).
load_asymmetric_key_from_pem_bytestring(key_pem) ==
    [n |-> key_pem \div 10, is_private |-> key_pem % 10 = 2]

\* sign_message(message, signature_algo, key): a signature structure whose digest binds key and message.
sign_message(message, signature_algo, key) ==
    [type |-> signature_algo, digest |-> <<key.n>> \o message]

\* Mutant of verify_message_signature: the digest is compared over the expected length only.
verify_message_signature_PrefixOnly(message, signature, key, signature_algo) ==
    /\ signature.type = signature_algo
    /\ Len(signature.digest) >= Len(message) + 1
    /\ SubSeq(signature.digest, 1, Len(message) + 1) = <<key.n>> \o message

\* verify_message_signature(message, signature, key, signature_algo): TRUE when it returns,
\* FALSE when it raises ValueError("Incorrect signature").
verify_message_signature(message, signature, key, signature_algo) ==
    /\ signature.type = signature_algo
    /\ signature.digest = <<key.n>> \o message

\* The signature algorithm the clients use with each key type.
SignatureAlgoFor(key_type) == IF key_type = "RSA" THEN "PSS" ELSE "DSS"

\* Size of the plaintext chunks RSA-OAEP encrypts one by one, and of an encrypted chunk.
RSA_OAEP_CHUNKS_SIZE == 2
RSA_MODULUS_SIZE == 4

RECURSIVE split_as_chunks(_, _)
split_as_chunks(bytestring, chunk_size) ==
    IF Len(bytestring) = 0 THEN <<>>
    ELSE IF Len(bytestring) <= chunk_size THEN <<bytestring>>
    ELSE <<SubSeq(bytestring, 1, chunk_size)>>
            \o split_as_chunks(SubSeq(bytestring, chunk_size + 1, Len(bytestring)), chunk_size)

RECURSIVE join_chunks(_)
join_chunks(chunks) ==
    IF Len(chunks) = 0 THEN <<>> ELSE Head(chunks) \o join_chunks(Tail(chunks))

\* _encrypt_via_rsa_oaep(plaintext, key): one encrypted chunk per plaintext chunk.
_encrypt_via_rsa_oaep(plaintext, key) ==
    LET chunks == split_as_chunks(plaintext, RSA_OAEP_CHUNKS_SIZE)
    IN  [digest_list |-> [i \in 1..Len(chunks) |->
                             [size |-> RSA_MODULUS_SIZE, n |-> key.n, data |-> chunks[i]]]]

\* Whether decipher.decrypt(encrypted_chunk) raises ValueError under the private key.
ChunkDecryptFails(encrypted_chunk, key) ==
    \/ encrypted_chunk.size # RSA_MODULUS_SIZE      \* "Ciphertext with incorrect length."
    \/ encrypted_chunk.n # key.n                    \* "Incorrect decryption."
    \/ ~key.is_private

\* Whether _decrypt_via_rsa_oaep(cipherdict, key) raises ValueError.
DecryptFails(cipherdict, key) ==
    \E i \in 1..Len(cipherdict.digest_list) : ChunkDecryptFails(cipherdict.digest_list[i], key)

\* The message of the ValueError decipher.decrypt(encrypted_chunk) raises: the length of
\* the chunk is checked before anything is deciphered.
ChunkDecryptError(encrypted_chunk, key) ==
    IF encrypted_chunk.size # RSA_MODULUS_SIZE
    THEN "Ciphertext with incorrect length."
    ELSE "Incorrect decryption."

\* The message of the ValueError _decrypt_via_rsa_oaep raises: that of the first chunk
\* that fails, the chunks being deciphered in order.
DecryptError(cipherdict, key) ==
    LET failing == { i \in 1..Len(cipherdict.digest_list) :
                        ChunkDecryptFails(cipherdict.digest_list[i], key) }
        first == CHOOSE i \in failing : \A j \in failing : i <= j
    IN  ChunkDecryptError(cipherdict.digest_list[first], key)

\* _decrypt_via_rsa_oaep(cipherdict, key) when it returns: the joined decrypted chunks.
_decrypt_via_rsa_oaep(cipherdict, key) ==
    join_chunks([i \in 1..Len(cipherdict.digest_list) |-> cipherdict.digest_list[i].data])

\* str.upper() on the algorithm and key type names the clients pass.
upper(name) ==
    CASE name = "rsa" -> "RSA"
      [] name = "rsa_oaep" -> "RSA_OAEP"
      [] name = "dsa" -> "DSA"
      [] OTHER -> name

-----------------------------------------------------------------------------
(* DummyKeyStorage *)

\* _get_keypair: dict.get((keychain_uid, key_type)): <<keypair>> when stored, <<>> when it returns None.
_get_keypair(keychain_uid, key_type) ==
    IF <<keychain_uid, key_type>> \in DOMAIN _cached_keypairs
    THEN <<_cached_keypairs[<<keychain_uid, key_type>>]>>
    ELSE <<>>

\* Truth value of `self._get_keypair(...)`: a stored keypair dict has two entries, so it is true.
KeypairTruthy(keypair) == keypair # <<>>

\* Mutant of StoreKeypair: the public key alone is stored.
StoreKeypair_PublicOnly(keychain_uid, key_type, public_key, private_key) ==
    [k \in DOMAIN _cached_keypairs \cup {<<keychain_uid, key_type>>} |->
        IF k = <<keychain_uid, key_type>>
        THEN [public_key |-> public_key, private_key |-> None]
        ELSE _cached_keypairs[k]]

\* Mutant of StoreKeypair: the dictionary is replaced by one holding the new entry only.
StoreKeypair_Forgetting(keychain_uid, key_type, public_key, private_key) ==
    [k \in {<<keychain_uid, key_type>>} |->
        [public_key |-> public_key, private_key |-> private_key]]

\* The dictionary after self._cached_keypairs[(keychain_uid, key_type)] = dict(public_key=, private_key=).
StoreKeypair(keychain_uid, key_type, public_key, private_key) ==
    [k \in DOMAIN _cached_keypairs \cup {<<keychain_uid, key_type>>} |->
        IF k = <<keychain_uid, key_type>>
        THEN [public_key |-> public_key, private_key |-> private_key]
        ELSE _cached_keypairs[k]]

\* Mutant of KeyStorage_get_public_key: `keypair["public_key"] or None`, an empty key read as absent.
KeyStorage_get_public_key_EmptyAsNone(keychain_uid, key_type) ==
    LET keypair == _get_keypair(keychain_uid, key_type)
    IN  IF KeypairTruthy(keypair) /\ Truthy(keypair[1].public_key)
        THEN keypair[1].public_key ELSE None

\* DummyKeyStorage.get_public_key
KeyStorage_get_public_key(keychain_uid, key_type) ==
    LET keypair == _get_keypair(keychain_uid, key_type)
    IN  IF KeypairTruthy(keypair) THEN keypair[1].public_key ELSE None

\* DummyKeyStorage.get_private_key
KeyStorage_get_private_key(keychain_uid, key_type) ==
    LET keypair == _get_keypair(keychain_uid, key_type)
    IN  IF KeypairTruthy(keypair) THEN keypair[1].private_key ELSE None

-----------------------------------------------------------------------------
(* Client threads and their calls *)

\* The keypairs clients store directly with DummyKeyStorage.set_keys: those of
\* test_key_storage_base, and pairs with one empty half.
DirectKeypairs ==
    { [public_key |-> BytesPublic,  private_key |-> BytesPrivate],
      [public_key |-> BytesPublic2, private_key |-> BytesPrivate2],
      [public_key |-> EmptyBytes,   private_key |-> BytesPrivate],
      [public_key |-> BytesPublic,  private_key |-> EmptyBytes] }

\* The encryption algorithm names clients pass: the supported one in both cases, and another.
EncryptionAlgos == {"RSA_OAEP", "rsa_oaep", "AES_EAX"}

\* Public keys a client can have fetched from the storage and loaded.
LoadablePublicKeys ==
    { _cached_keypairs[k].public_key : k \in DOMAIN _cached_keypairs } \cap
    { generate_asymmetric_keypair(n).public_key : n \in 1..generated }

\* cipherdict["digest_list"].append(b"aaabbbccc"): a chunk of 9 bytes, no encrypted chunk, added.
Tampered(cipherdict) ==
    [digest_list |-> Append(cipherdict.digest_list, [size |-> 9, n |-> 0, data |-> <<>>])]

\* The cipherdicts a client has built: a secret encrypted under a public key it fetched.
ValidCipherdicts ==
    { _encrypt_via_rsa_oaep(secret, load_asymmetric_key_from_pem_bytestring(key_pem)) :
        secret \in Secrets, key_pem \in LoadablePublicKeys }
    \cup { [digest_list |-> <<>>] }

\* The cipherdicts a client can pass: those it has built, as they are or tampered with.
Cipherdicts == ValidCipherdicts \cup { Tampered(cipherdict) : cipherdict \in ValidCipherdicts }

NoCall ==
    [ op |-> "none", keychain_uid |-> "", key_type |-> "",
      public_key |-> None, private_key |-> None,
      message |-> <<>>, signature_algo |-> "",
      encryption_algo |-> "", cipherdict |-> [digest_list |-> <<>>],
      keypair |-> 0,
      outcome |-> "none", ret |-> None, error |-> "" ]

\* Whether client thread t may start a call now.
CanCall(t) ==
    /\ pc[t] = "idle"
    /\ clients = "sequential" => \A u \in Threads : pc[u] = "idle"
    /\ calls < MaxCalls

\* Client thread t enters a call: its frame is set up and it stands at the call's first statement.
Enter(t, frame, start) ==
    /\ calls' = calls + 1
    /\ call' = [call EXCEPT ![t] = frame]
    /\ pc' = [pc EXCEPT ![t] = start]
    /\ UNCHANGED <<_cached_keypairs, generated, clients, engine_vars, aggregator_vars, device_vars>>

\* The call of thread t ends: it returns value, or raises the exception named by outcome.
Finish(t, outcome, value) ==
    /\ call' = [call EXCEPT ![t].outcome = outcome, ![t].ret = value]
    /\ pc' = [pc EXCEPT ![t] = "idle"]

\* The call of thread t ends by raising exception with the message error.
Raise(t, exception, error) ==
    /\ call' = [call EXCEPT ![t].outcome = exception, ![t].ret = None, ![t].error = error]
    /\ pc' = [pc EXCEPT ![t] = "idle"]

Call_KeyStorage_set_keys(t) ==
    /\ CanCall(t)
    /\ \E keychain_uid \in KeychainUids, key_type \in KeyTypes, keypair \in DirectKeypairs :
           Enter(t, [NoCall EXCEPT !.op = "KeyStorage.set_keys",
                                !.keychain_uid = keychain_uid, !.key_type = key_type,
                                !.public_key = keypair.public_key,
                                !.private_key = keypair.private_key,
                                !.outcome = "pending"],
              "set_keys")

Call_KeyStorage_get_public_key(t) ==
    /\ CanCall(t)
    /\ \E keychain_uid \in KeychainUids, key_type \in KeyTypes :
           Enter(t, [NoCall EXCEPT !.op = "KeyStorage.get_public_key",
                                !.keychain_uid = keychain_uid, !.key_type = key_type,
                                !.outcome = "pending"],
              "KeyStorage.get_public_key")

Call_KeyStorage_get_private_key(t) ==
    /\ CanCall(t)
    /\ \E keychain_uid \in KeychainUids, key_type \in KeyTypes :
           Enter(t, [NoCall EXCEPT !.op = "KeyStorage.get_private_key",
                                !.keychain_uid = keychain_uid, !.key_type = key_type,
                                !.outcome = "pending"],
              "KeyStorage.get_private_key")

Call_get_public_key(t) ==
    /\ CanCall(t)
    /\ \E keychain_uid \in KeychainUids, key_type \in KeyTypes :
           Enter(t, [NoCall EXCEPT !.op = "get_public_key",
                                !.keychain_uid = keychain_uid, !.key_type = key_type,
                                !.outcome = "pending"],
              "_ensure_keypair_exists")

Call_get_message_signature(t) ==
    /\ CanCall(t)
    /\ \E keychain_uid \in KeychainUids, key_type \in KeyTypes, message \in Messages :
           Enter(t, [NoCall EXCEPT !.op = "get_message_signature",
                                !.keychain_uid = keychain_uid, !.key_type = key_type,
                                !.message = message,
                                !.signature_algo = SignatureAlgoFor(key_type),
                                !.outcome = "pending"],
              "_ensure_keypair_exists")

Call_decrypt_with_private_key(t) ==
    /\ CanCall(t)
    /\ \E keychain_uid \in KeychainUids, key_type \in KeyTypes,
       encryption_algo \in EncryptionAlgos, cipherdict \in Cipherdicts :
           Enter(t, [NoCall EXCEPT !.op = "decrypt_with_private_key",
                                !.keychain_uid = keychain_uid, !.key_type = key_type,
                                !.encryption_algo = encryption_algo,
                                !.cipherdict = cipherdict,
                                !.outcome = "pending"],
              "decrypt_with_private_key")

-----------------------------------------------------------------------------
(* DummyKeyStorage methods, one dictionary access per step *)

\* DummyKeyStorage.get_public_key called by a client.
KeyStorageGetPublicKey(t) ==
    /\ pc[t] = "KeyStorage.get_public_key"
    /\ Finish(t, "ok", KeyStorage_get_public_key(call[t].keychain_uid, call[t].key_type))
    /\ UNCHANGED <<_cached_keypairs, generated, calls, clients, engine_vars, aggregator_vars, device_vars>>

\* DummyKeyStorage.get_private_key called by a client.
KeyStorageGetPrivateKey(t) ==
    /\ pc[t] = "KeyStorage.get_private_key"
    /\ Finish(t, "ok", KeyStorage_get_private_key(call[t].keychain_uid, call[t].key_type))
    /\ UNCHANGED <<_cached_keypairs, generated, calls, clients, engine_vars, aggregator_vars, device_vars>>

\* Mutant of SetKeysCheck: set_keys without its existence check.
SetKeysCheck_Unchecked(t) ==
    /\ pc[t] = "set_keys"
    /\ pc' = [pc EXCEPT ![t] = "set_keys_store"]
    /\ UNCHANGED <<call, _cached_keypairs, generated, calls, clients, engine_vars, aggregator_vars, device_vars>>

\* DummyKeyStorage.set_keys, line 175-178: the existence check; RuntimeError when a keypair is stored.
\* The exception is caught nowhere, so it ends the client's call whichever it is.
SetKeysCheck(t) ==
    /\ pc[t] = "set_keys"
    /\ IF KeypairTruthy(_get_keypair(call[t].keychain_uid, call[t].key_type))
       THEN Raise(t, "RuntimeError", "Can't save already existing key")
       ELSE /\ pc' = [pc EXCEPT ![t] = "set_keys_store"]
            /\ UNCHANGED call
    /\ UNCHANGED <<_cached_keypairs, generated, calls, clients, engine_vars, aggregator_vars, device_vars>>

\* Mutant of SetKeysStore: the keypair is stored under every key type of the keychain uid.
SetKeysStore_EveryKeyType(t) ==
    /\ pc[t] = "set_keys_store"
    /\ _cached_keypairs' =
           [k \in DOMAIN _cached_keypairs \cup { <<call[t].keychain_uid, key_type>> : key_type \in KeyTypes } |->
               IF k[1] = call[t].keychain_uid
               THEN [public_key |-> call[t].public_key, private_key |-> call[t].private_key]
               ELSE _cached_keypairs[k]]
    /\ IF call[t].op = "KeyStorage.set_keys"
       THEN Finish(t, "ok", None)
       ELSE /\ pc' = [pc EXCEPT ![t] = "after_ensure"]
            /\ UNCHANGED call
    /\ UNCHANGED <<generated, calls, clients, engine_vars, aggregator_vars, device_vars>>

\* DummyKeyStorage.set_keys, line 179-181: the store; then the return to the caller.
SetKeysStore(t) ==
    /\ pc[t] = "set_keys_store"
    /\ _cached_keypairs' = StoreKeypair(call[t].keychain_uid, call[t].key_type,
                                        call[t].public_key, call[t].private_key)
    /\ IF call[t].op = "KeyStorage.set_keys"
       THEN Finish(t, "ok", None)
       ELSE /\ pc' = [pc EXCEPT ![t] = "after_ensure"]
            /\ UNCHANGED call
    /\ UNCHANGED <<generated, calls, clients, engine_vars, aggregator_vars, device_vars>>

-----------------------------------------------------------------------------
(* EscrowApi *)

\* Mutant of EnsureKeypairExists: generate_asymmetric_keypair called once for each half
\* passed to set_keys, so the public and the private key stored belong to two keypairs.
EnsureKeypairExists_TwoGenerations(t) ==
    /\ pc[t] = "_ensure_keypair_exists"
    /\ LET has_public_key == KeyStorage_get_public_key(call[t].keychain_uid, call[t].key_type)
       IN  IF ~Truthy(has_public_key)
           THEN /\ generated + 2 <= MaxGenerated
                /\ generated' = generated + 2
                /\ call' = [call EXCEPT
                       ![t].keypair = generated + 1,
                       ![t].public_key = generate_asymmetric_keypair(generated + 1).public_key,
                       ![t].private_key = generate_asymmetric_keypair(generated + 2).private_key]
                /\ pc' = [pc EXCEPT ![t] = "set_keys"]
           ELSE /\ pc' = [pc EXCEPT ![t] = "after_ensure"]
                /\ UNCHANGED <<call, generated>>
    /\ UNCHANGED <<_cached_keypairs, calls, clients, engine_vars, aggregator_vars, device_vars>>

\* Mutant of EnsureKeypairExists: the keypair generated is not passed to set_keys.
EnsureKeypairExists_NotStored(t) ==
    /\ pc[t] = "_ensure_keypair_exists"
    /\ LET has_public_key == KeyStorage_get_public_key(call[t].keychain_uid, call[t].key_type)
       IN  IF ~Truthy(has_public_key)
           THEN /\ generated < MaxGenerated
                /\ generated' = generated + 1
                /\ call' = [call EXCEPT ![t].keypair = generated + 1]
           ELSE UNCHANGED <<call, generated>>
    /\ pc' = [pc EXCEPT ![t] = "after_ensure"]
    /\ UNCHANGED <<_cached_keypairs, calls, clients, engine_vars, aggregator_vars, device_vars>>

\* EscrowApi._ensure_keypair_exists, line 85-89: the read of the public key, and the
\* generation of a keypair when the value read is false.
EnsureKeypairExists(t) ==
    /\ pc[t] = "_ensure_keypair_exists"
    /\ LET has_public_key == KeyStorage_get_public_key(call[t].keychain_uid, call[t].key_type)
       IN  IF ~Truthy(has_public_key)
           THEN /\ generated < MaxGenerated
                /\ generated' = generated + 1
                /\ LET keypair == generate_asymmetric_keypair(generated + 1)
                   IN  call' = [call EXCEPT ![t].keypair = generated + 1,
                                            ![t].public_key = keypair.public_key,
                                            ![t].private_key = keypair.private_key]
                /\ pc' = [pc EXCEPT ![t] = "set_keys"]
           ELSE /\ pc' = [pc EXCEPT ![t] = "after_ensure"]
                /\ UNCHANGED <<call, generated>>
    /\ UNCHANGED <<_cached_keypairs, calls, clients, engine_vars, aggregator_vars, device_vars>>

\* Mutant of GetPublicKeyReturn: the other half of the keypair is returned.
GetPublicKeyReturn_PrivateHalf(t) ==
    /\ pc[t] = "after_ensure"
    /\ call[t].op = "get_public_key"
    /\ Finish(t, "ok", KeyStorage_get_private_key(call[t].keychain_uid, call[t].key_type))
    /\ UNCHANGED <<_cached_keypairs, generated, calls, clients, engine_vars, aggregator_vars, device_vars>>

\* EscrowApi.get_public_key, line 103-105.
GetPublicKeyReturn(t) ==
    /\ pc[t] = "after_ensure"
    /\ call[t].op = "get_public_key"
    /\ Finish(t, "ok", KeyStorage_get_public_key(call[t].keychain_uid, call[t].key_type))
    /\ UNCHANGED <<_cached_keypairs, generated, calls, clients, engine_vars, aggregator_vars, device_vars>>

\* Mutant of GetMessageSignatureReturn: the private key is fetched for key type "RSA"
\* whatever the key type asked.
GetMessageSignatureReturn_RsaOnly(t) ==
    /\ pc[t] = "after_ensure"
    /\ call[t].op = "get_message_signature"
    /\ LET private_key_pem == KeyStorage_get_private_key(call[t].keychain_uid, "RSA")
       IN  IF ~IsPem(private_key_pem)
           THEN Raise(t, "ValueError", "Key format is not supported")
           ELSE LET private_key == load_asymmetric_key_from_pem_bytestring(private_key_pem)
                IN  Finish(t, "ok", sign_message(call[t].message, call[t].signature_algo, private_key))
    /\ UNCHANGED <<_cached_keypairs, generated, calls, clients, engine_vars, aggregator_vars, device_vars>>

\* EscrowApi.get_message_signature, line 120-131.
GetMessageSignatureReturn(t) ==
    /\ pc[t] = "after_ensure"
    /\ call[t].op = "get_message_signature"
    /\ LET private_key_pem == KeyStorage_get_private_key(call[t].keychain_uid, call[t].key_type)
       IN  IF ~IsPem(private_key_pem)
           THEN Raise(t, "ValueError", "Key format is not supported")
           ELSE LET private_key == load_asymmetric_key_from_pem_bytestring(private_key_pem)
                IN  Finish(t, "ok", sign_message(call[t].message, call[t].signature_algo, private_key))
    /\ UNCHANGED <<_cached_keypairs, generated, calls, clients, engine_vars, aggregator_vars, device_vars>>

\* Mutant of DecryptAssert: the key type alone is asserted.
DecryptAssert_KeyTypeOnly(t) ==
    /\ pc[t] = "decrypt_with_private_key"
    /\ IF upper(call[t].key_type) = "RSA"
       THEN /\ pc' = [pc EXCEPT ![t] = "_ensure_keypair_exists"]
            /\ UNCHANGED call
       ELSE Raise(t, "AssertionError", "")
    /\ UNCHANGED <<_cached_keypairs, generated, calls, clients, engine_vars, aggregator_vars, device_vars>>

\* EscrowApi.decrypt_with_private_key, line 145-149: the two assertions.
DecryptAssert(t) ==
    /\ pc[t] = "decrypt_with_private_key"
    /\ IF upper(call[t].key_type) = "RSA" /\ upper(call[t].encryption_algo) = "RSA_OAEP"
       THEN /\ pc' = [pc EXCEPT ![t] = "_ensure_keypair_exists"]
            /\ UNCHANGED call
       ELSE Raise(t, "AssertionError", "")
    /\ UNCHANGED <<_cached_keypairs, generated, calls, clients, engine_vars, aggregator_vars, device_vars>>

\* Mutant of DecryptReturn: the ValueError of a chunk is caught and the chunks deciphered
\* before it are returned.
DecryptReturn_Truncating(t) ==
    /\ pc[t] = "after_ensure"
    /\ call[t].op = "decrypt_with_private_key"
    /\ LET private_key_pem == KeyStorage_get_private_key(call[t].keychain_uid, call[t].key_type)
       IN  IF ~IsPem(private_key_pem)
           THEN Raise(t, "ValueError", "Key format is not supported")
           ELSE LET private_key == load_asymmetric_key_from_pem_bytestring(private_key_pem)
                    digest_list == call[t].cipherdict.digest_list
                    good == { i \in 0..Len(digest_list) :
                                \A j \in 1..i : ~ChunkDecryptFails(digest_list[j], private_key) }
                    last == CHOOSE i \in good : \A j \in good : j <= i
                IN  Finish(t, "ok", _decrypt_via_rsa_oaep(
                                       [digest_list |-> SubSeq(digest_list, 1, last)], private_key))
    /\ UNCHANGED <<_cached_keypairs, generated, calls, clients, engine_vars, aggregator_vars, device_vars>>

\* EscrowApi.decrypt_with_private_key, line 151-160.
DecryptReturn(t) ==
    /\ pc[t] = "after_ensure"
    /\ call[t].op = "decrypt_with_private_key"
    /\ LET private_key_pem == KeyStorage_get_private_key(call[t].keychain_uid, call[t].key_type)
       IN  IF ~IsPem(private_key_pem)
           THEN Raise(t, "ValueError", "Key format is not supported")
           ELSE LET private_key == load_asymmetric_key_from_pem_bytestring(private_key_pem)
                IN  IF DecryptFails(call[t].cipherdict, private_key)
                    THEN Raise(t, "ValueError", DecryptError(call[t].cipherdict, private_key))
                    ELSE Finish(t, "ok", _decrypt_via_rsa_oaep(call[t].cipherdict, private_key))
    /\ UNCHANGED <<_cached_keypairs, generated, calls, clients, engine_vars, aggregator_vars, device_vars>>

-----------------------------------------------------------------------------
(* The cascade engine: wacryptolib.container, as the design describes it.  Its escrow *)
(* is the local one, the EscrowApi over the DummyKeyStorage above, called by the      *)
(* engine alone, one call after the other.                                            *)

LOCAL_ESCROW_MARKER == "local"

DataEncryptionAlgos == {"AES_EAX", "CHACHA20_POLY1305", "AES_CBC"}

\* The plaintexts given to the engine.
Plaintexts == {<<>>, <<1, 2, 3>>}

\* Sequences of length 0..n of elements of S.
SeqsUpTo(S, n) == UNION { [1..k -> S] : k \in 0..n }

\* Chains of key encryption layers: RSA_OAEP under the local escrow, as in ENCRYPTION_CONF.
KeyEncryptionStrata ==
    SeqsUpTo({[key_encryption_algo |-> "RSA_OAEP", key_escrow |-> LOCAL_ESCROW_MARKER]}, MaxLayers)

\* Lists of signature specs: none, or one PSS signature by the local escrow.
DataSignatures ==
    SeqsUpTo({[signature_algo |-> "PSS", signature_escrow |-> LOCAL_ESCROW_MARKER]}, 1)

DataEncryptionStrata ==
    [data_encryption_algo : DataEncryptionAlgos,
     key_encryption_strata : KeyEncryptionStrata,
     data_signatures : DataSignatures]

\* ENCRYPTION_CONF["data_encryption_strata"]: three strata, the key of each wrapped
\* once by the local escrow, no signature.
ENCRYPTION_CONF ==
    [i \in 1..3 |->
        [data_encryption_algo |-> <<"AES_EAX", "CHACHA20_POLY1305", "AES_CBC">>[i],
         key_encryption_strata |->
             <<[key_encryption_algo |-> "RSA_OAEP", key_escrow |-> LOCAL_ESCROW_MARKER]>>,
         data_signatures |-> <<>>]]

\* The supported encryption policies: ordered lists of strata, ENCRYPTION_CONF among them.
EncryptionConfs == SeqsUpTo(DataEncryptionStrata, MaxStrata) \cup {ENCRYPTION_CONF}

NoContainer == [keychain_uid |-> "", data_ciphertext |-> <<>>, data_encryption_strata |-> <<>>]
NoResult == [status |-> "none", data |-> <<>>]

\* Serialisation of a structure to bytes and back: the bytes are a tagged blob.
dump_to_json_bytes(value) == <<"json", value>>
load_from_json_bytes(bytes) == bytes[2]

\* The fresh symmetric key of the i-th stratum.
generate_symmetric_key(i) == <<50 + i, 60 + i, 70 + i>>

\* Symmetric encryption: a cipherdict that opens under the same algorithm and key only.
encrypt_bytestring(plaintext, encryption_algo, key) ==
    [algo |-> encryption_algo, key |-> key, ciphertext |-> plaintext]

SymmetricDecryptFails(cipherdict, encryption_algo, key) ==
    cipherdict.algo # encryption_algo \/ cipherdict.key # key

decrypt_bytestring(cipherdict, encryption_algo, key) == cipherdict.ciphertext

\* Whether the policy makes the engine call an escrow.
NeedsEscrow(conf) ==
    \E i \in 1..Len(conf) :
        Len(conf[i].key_encryption_strata) > 0 \/ Len(conf[i].data_signatures) > 0

\* Step 3 of the encryption: the key material wrapped through the layers in order, the
\* output of each wrap being the input of the next.
RECURSIVE _encrypt_symmetric_key(_, _, _)
_encrypt_symmetric_key(key_data, key_encryption_strata, public_key_pem) ==
    IF Len(key_encryption_strata) = 0 THEN key_data
    ELSE _encrypt_symmetric_key(
             dump_to_json_bytes(_encrypt_via_rsa_oaep(key_data,
                 load_asymmetric_key_from_pem_bytestring(public_key_pem))),
             Tail(key_encryption_strata), public_key_pem)

\* Step 1 of the decryption: the layers peeled last-applied first, each by the escrow's
\* decrypt_with_private_key; a failing unwrap fails the whole recovery.
RECURSIVE _decrypt_symmetric_key(_, _, _)
_decrypt_symmetric_key(key_ciphertext, key_encryption_strata, private_key_pem) ==
    IF Len(key_encryption_strata) = 0 THEN [status |-> "ok", data |-> key_ciphertext]
    ELSE LET cipherdict == load_from_json_bytes(key_ciphertext)
             private_key == load_asymmetric_key_from_pem_bytestring(private_key_pem)
         IN  IF DecryptFails(cipherdict, private_key)
             THEN [status |-> "KeyRecoveryFailed", data |-> <<>>]
             ELSE _decrypt_symmetric_key(
                      _decrypt_via_rsa_oaep(cipherdict, private_key),
                      SubSeq(key_encryption_strata, 1, Len(key_encryption_strata) - 1),
                      private_key_pem)

\* The encryption from stratum i on: each stratum encrypts the running ciphertext under
\* a fresh key, wraps the key and signs its plaintext.
RECURSIVE _encrypt_strata(_, _, _, _)
_encrypt_strata(data_current, conf, i, keypair) ==
    IF i > Len(conf)
    THEN [data_ciphertext |-> data_current, data_encryption_strata |-> <<>>]
    ELSE LET stratum == conf[i]
             symmetric_key == generate_symmetric_key(i)
             cipherdict == encrypt_bytestring(data_current, stratum.data_encryption_algo,
                                              symmetric_key)
             key_ciphertext == _encrypt_symmetric_key(symmetric_key,
                                   stratum.key_encryption_strata, keypair.public_key)
             signatures ==
                 [j \in 1..Len(stratum.data_signatures) |->
                     sign_message(data_current, stratum.data_signatures[j].signature_algo,
                         load_asymmetric_key_from_pem_bytestring(keypair.private_key))]
             rest == _encrypt_strata(dump_to_json_bytes(cipherdict), conf, i + 1, keypair)
         IN  [data_ciphertext |-> rest.data_ciphertext,
              data_encryption_strata |->
                  <<[data_encryption_algo |-> stratum.data_encryption_algo,
                     key_encryption_strata |-> stratum.key_encryption_strata,
                     data_signatures |-> stratum.data_signatures,
                     key_ciphertext |-> key_ciphertext,
                     signatures |-> signatures]>> \o rest.data_encryption_strata]

\* The decryption of one stratum: key recovery, decryption, verification of the signatures.
_decrypt_stratum(data_current, stratum, keypair) ==
    LET key_result == _decrypt_symmetric_key(stratum.key_ciphertext,
                          stratum.key_encryption_strata, keypair.private_key)
        cipherdict == load_from_json_bytes(data_current)
        plaintext == decrypt_bytestring(cipherdict, stratum.data_encryption_algo, key_result.data)
    IN  IF key_result.status # "ok" THEN key_result
        ELSE IF SymmetricDecryptFails(cipherdict, stratum.data_encryption_algo, key_result.data)
        THEN [status |-> "CiphertextIntegrityFailed", data |-> <<>>]
        ELSE IF \E j \in 1..Len(stratum.signatures) :
                    ~verify_message_signature(plaintext, stratum.signatures[j],
                         load_asymmetric_key_from_pem_bytestring(keypair.public_key),
                         stratum.data_signatures[j].signature_algo)
        THEN [status |-> "SignatureInvalid", data |-> <<>>]
        ELSE [status |-> "ok", data |-> plaintext]

\* Mutant of _decrypt_strata: the strata are undone in the order of the policy.
RECURSIVE _decrypt_strata_PolicyOrder(_, _, _)
_decrypt_strata_PolicyOrder(data_current, strata, keypair) ==
    IF Len(strata) = 0 THEN [status |-> "ok", data |-> data_current]
    ELSE LET stratum_result == _decrypt_stratum(data_current, Head(strata), keypair)
         IN  IF stratum_result.status # "ok" THEN stratum_result
             ELSE _decrypt_strata_PolicyOrder(stratum_result.data, Tail(strata), keypair)

\* The decryption: the strata undone in reverse order, the first failure ending it with
\* no plaintext.
RECURSIVE _decrypt_strata(_, _, _)
_decrypt_strata(data_current, strata, keypair) ==
    IF Len(strata) = 0 THEN [status |-> "ok", data |-> data_current]
    ELSE LET stratum_result == _decrypt_stratum(data_current, strata[Len(strata)], keypair)
         IN  IF stratum_result.status # "ok" THEN stratum_result
             ELSE _decrypt_strata(stratum_result.data,
                                  SubSeq(strata, 1, Len(strata) - 1), keypair)

\* EscrowApi._ensure_keypair_exists, line 85-89, called by the engine: whether it
\* generates a keypair, the public key it read being false.
EnsureGenerates(keychain_uid, key_type) ==
    ~Truthy(KeyStorage_get_public_key(keychain_uid, key_type))

\* Whether the set_keys it then calls raises RuntimeError (line 175-178): a keypair is
\* stored, its public key being false. The exception is caught nowhere.
EnsureRaises(keychain_uid, key_type) ==
    /\ EnsureGenerates(keychain_uid, key_type)
    /\ KeypairTruthy(_get_keypair(keychain_uid, key_type))

\* The keypairs stored once the local escrow, called by the engine for (keychain_uid,
\* key_type), has run _ensure_keypair_exists: the generated keypair is stored when no
\* keypair was, and the storage is left as it was when a public key was read or when
\* set_keys raised.
EnsuredKeypairs(keychain_uid, key_type) ==
    IF ~EnsureGenerates(keychain_uid, key_type) \/ EnsureRaises(keychain_uid, key_type)
    THEN _cached_keypairs
    ELSE LET keypair == generate_asymmetric_keypair(generated + 1)
         IN  StoreKeypair(keychain_uid, key_type, keypair.public_key, keypair.private_key)

\* encrypt_data_into_container(data, conf, keychain_uid): the engine fetches the public
\* key of its escrow (which provisions the keypair) when the policy has a layer or a
\* signature, and runs the strata in policy order. The container it returns, when the
\* escrow raises nothing (see EscrowRaises).
encrypt_data_into_container(plaintext, conf, keychain_uid) ==
    LET keypair == IF NeedsEscrow(conf)
                   THEN EnsuredKeypairs(keychain_uid, "RSA")[<<keychain_uid, "RSA">>]
                   ELSE [public_key |-> None, private_key |-> None]
        encrypted == _encrypt_strata(plaintext, conf, 1, keypair)
    IN  [keychain_uid |-> keychain_uid,
         data_ciphertext |-> encrypted.data_ciphertext,
         data_encryption_strata |-> encrypted.data_encryption_strata]

\* Whether the first escrow call of encrypt_data_into_container(_, conf, keychain_uid)
\* raises the RuntimeError of set_keys, which ends the encryption with no container.
EscrowRaises(conf, keychain_uid) ==
    NeedsEscrow(conf) /\ EnsureRaises(keychain_uid, "RSA")

\* The outcome of an encryption that the escrow's exception ended.
EncryptionRaised == [status |-> "RuntimeError", data |-> <<>>]

\* What the escrow calls of encrypt_data_into_container(_, conf, keychain_uid) do to the
\* key storage and to the count of generated keypairs: the first call generates a
\* keypair when it reads no true public key, and stores it unless set_keys raises.
EscrowProvisions(conf, keychain_uid) ==
    LET generates == NeedsEscrow(conf) /\ EnsureGenerates(keychain_uid, "RSA")
    IN  /\ generates => generated < MaxGenerated
        /\ _cached_keypairs' = IF NeedsEscrow(conf) THEN EnsuredKeypairs(keychain_uid, "RSA")
                               ELSE _cached_keypairs
        /\ generated' = IF generates THEN generated + 1 ELSE generated

\* The engine's caller has a container made of its data under its policy, or gets the
\* exception of the escrow and no container.
EncryptDataIntoContainer ==
    /\ container = NoContainer
    /\ result = NoResult
    /\ \E keychain_uid \in KeychainUids :
           /\ EscrowProvisions(encryption_conf, keychain_uid)
           /\ IF EscrowRaises(encryption_conf, keychain_uid)
              THEN /\ container' = container
                   /\ result' = EncryptionRaised
              ELSE /\ container' = encrypt_data_into_container(data, encryption_conf,
                                                               keychain_uid)
                   /\ result' = result
    /\ UNCHANGED <<pc, call, calls, clients, encryption_conf, data, aggregator_vars, device_vars>>

\* decrypt_data_from_container(container): the escrow named by the container unwraps the
\* keys; the container is left as it is.
DecryptDataFromContainer ==
    /\ container # NoContainer
    /\ result = NoResult
    /\ LET key == <<container.keychain_uid, "RSA">>
           keypair == IF key \in DOMAIN _cached_keypairs
                      THEN _cached_keypairs[key]
                      ELSE [public_key |-> None, private_key |-> None]
       IN  result' = _decrypt_strata(container.data_ciphertext,
                                     container.data_encryption_strata, keypair)
    /\ UNCHANGED <<_cached_keypairs, pc, call, generated, calls, clients,
                   encryption_conf, data, container, aggregator_vars, device_vars>>

\* No container asked for: the engine's variables while the escrow alone is exercised.
EngineIdle ==
    /\ encryption_conf = <<>>
    /\ data = <<>>
    /\ container = NoContainer
    /\ result = NoResult

-----------------------------------------------------------------------------
(* The records aggregator: wacryptolib.sensor.TarfileRecordsAggregator, as the design *)
(* describes it, over a container storage that encrypts each archive it is given.     *)

\* TarfileRecordsAggregator(container_storage=, max_duration_s=100): the longest time
\* span, in seconds, a buffer may cover.
max_duration_s == 100

\* The times of the records, in seconds from the first: the start, and the times from
\* max_duration_s later on, so that a buffer may cover exactly max_duration_s and more.
Times == {0} \cup (max_duration_s .. max_duration_s + MaxTime)

\* The records producers add: add_record(sensor_name=, from_datetime=, to_datetime=,
\* extension=, data=).
Records ==
    { record \in [sensor_name : {"dummy_sensor"}, from_datetime : Times, to_datetime : Times,
                  extension : {".bin"}, data : {<<1, 2>>}] :
        record.from_datetime <= record.to_datetime }

\* ContainerStorage(default_encryption_conf=ENCRYPTION_CONF): the policy of the
\* container storage the aggregator gives its archives to.
AggregatorConf == ENCRYPTION_CONF

\* The archive of a list of records: one named entry for each record, in order, that
\* keeps the record's source name, extension and bytes.
Archive(records) ==
    [i \in 1..Len(records) |->
        [name |-> <<records[i].sensor_name, records[i].from_datetime,
                    records[i].to_datetime, records[i].extension>>,
         data |-> records[i].data]]

\* One archive of the list of records, whose window started at start, is given to the
\* cascade engine, which makes one container of it, and the buffer is emptied; when the
\* encryption fails, its exception goes to the caller and the records stay buffered.
SubmitArchive(records, start) ==
    \E keychain_uid \in KeychainUids :
        /\ EscrowProvisions(AggregatorConf, keychain_uid)
        /\ IF EscrowRaises(AggregatorConf, keychain_uid)
           THEN /\ result' = EncryptionRaised
                /\ containers' = containers
                /\ buffer' = records
                /\ window_start' = start
           ELSE /\ result' = result
                /\ containers' = Append(containers,
                       encrypt_data_into_container(Archive(records), AggregatorConf,
                                                   keychain_uid))
                /\ buffer' = <<>>
                /\ window_start' = None

\* The flush of the list of records: nothing when it is empty, one archive otherwise.
FlushRecords(records, start) ==
    IF Len(records) = 0
    THEN UNCHANGED <<_cached_keypairs, generated, result, buffer, window_start, containers>>
    ELSE SubmitArchive(records, start)

\* Mutant of _flush_aggregated_data: an empty buffer is archived and encrypted too.
_flush_aggregated_data_EmptyToo ==
    /\ SubmitArchive(buffer, window_start)
    /\ Len(containers) < MaxRecords
    /\ UNCHANGED <<pc, call, calls, clients, encryption_conf, data, container, added, device_vars>>

\* TarfileRecordsAggregator._flush_aggregated_data(): the explicit flush.
_flush_aggregated_data ==
    /\ FlushRecords(buffer, window_start)
    /\ UNCHANGED <<pc, call, calls, clients, encryption_conf, data, container, added, device_vars>>

\* TarfileRecordsAggregator.add_record(...): the record is appended, the window starting
\* at its from_datetime when it is the first since the last flush; the buffer is flushed
\* when the record ends more than max_duration_s after the window start.
add_record(record) ==
    /\ added < MaxRecords
    /\ added' = added + 1
    /\ LET start == IF Len(buffer) = 0 THEN record.from_datetime ELSE window_start
       IN  IF record.to_datetime - start > max_duration_s
           THEN FlushRecords(Append(buffer, record), start)
           ELSE /\ buffer' = Append(buffer, record)
                /\ window_start' = start
                /\ UNCHANGED <<_cached_keypairs, generated, result, containers>>
    /\ UNCHANGED <<pc, call, calls, clients, encryption_conf, data, container, device_vars>>

\* The aggregator just constructed, or not used.
AggregatorIdle ==
    /\ buffer = <<>>
    /\ window_start = None
    /\ containers = <<>>
    /\ added = 0

-----------------------------------------------------------------------------
(* Authentication devices: authentication_device.py over the mounted partitions of    *)
(* USB keys and the authenticator folder each may hold.                               *)

\* The mount points of the USB partitions, in the order the platform lists them.
MountedPaths == <<"E:", "F:">>

Users == {"alice", "bob"}

\* The metadata of an authenticator: a dict with at least user and device_uid.
Metadata == [user : Users, device_uid : {"E:", "F:"}]

\* What the authenticator folder of a path holds: nothing, metadata, or corrupted metadata.
NotInitialized == [user |-> "", device_uid |-> ""]
Corrupted == [user |-> "", device_uid |-> "corrupted"]

\* An optional dict: <<>> for None, <<metadata>> for a dict.
NoneMetadata == <<>>

\* _get_authenticator_path(authentication_device): the folder .key_storage of the path.
_get_authenticator_path(authentication_device) == authentication_device.path

\* is_authenticator_initialized(authenticator_path): the folder holds a metadata file.
is_authenticator_initialized(authenticator_path) ==
    authenticators[authenticator_path] # NotInitialized

\* is_authentication_device_initialized(authentication_device)
is_authentication_device_initialized(authentication_device) ==
    is_authenticator_initialized(_get_authenticator_path(authentication_device))

\* Whether load_authenticator_metadata(authenticator_path) raises: ValueError or a json
\* decoding exception, the metadata being corrupted.
LoadMetadataFails(authenticator_path) == authenticators[authenticator_path] \notin Metadata

\* load_authentication_device_metadata(authentication_device) when it returns.
load_authentication_device_metadata(authentication_device) ==
    authenticators[_get_authenticator_path(authentication_device)]

\* _list_available_authentication_devices_linux / _win32: one record for each mounted
\* partition, with is_initialized read from the filesystem and no metadata field yet.
_list_available_authentication_devices ==
    [i \in 1..Len(MountedPaths) |->
        [path |-> MountedPaths[i],
         is_initialized |-> is_authentication_device_initialized([path |-> MountedPaths[i]])]]

\* The records once the loop of list_available_authentication_devices has set the
\* metadata field of each.
WithMetadata(devices) ==
    [i \in 1..Len(devices) |->
        [path |-> devices[i].path,
         is_initialized |-> devices[i].is_initialized,
         metadata |-> IF devices[i].is_initialized
                      THEN <<load_authentication_device_metadata(devices[i])>>
                      ELSE NoneMetadata]]

\* Mutant of list_available_authentication_devices: a failing load is caught and the
\* metadata of the device left to None.
list_available_authentication_devices_CatchingLoad ==
    /\ LET devices == _list_available_authentication_devices
       IN  /\ authentication_devices' =
                  [i \in 1..Len(devices) |->
                      [path |-> devices[i].path,
                       is_initialized |-> devices[i].is_initialized,
                       metadata |-> IF devices[i].is_initialized
                                        /\ ~LoadMetadataFails(devices[i].path)
                                    THEN <<load_authentication_device_metadata(devices[i])>>
                                    ELSE NoneMetadata]]
           /\ device_outcome' = [op |-> "list", path |-> "", user |-> "", status |-> "ok"]
    /\ UNCHANGED <<authenticators, _cached_keypairs, pc, call, generated, calls, clients,
                   engine_vars, aggregator_vars>>

\* list_available_authentication_devices(): the load of the metadata of an initialized
\* device may raise, which ends the call with no list returned.
list_available_authentication_devices ==
    /\ LET devices == _list_available_authentication_devices
       IN  IF \E i \in 1..Len(devices) :
                  devices[i].is_initialized /\ LoadMetadataFails(devices[i].path)
           THEN /\ device_outcome' = [op |-> "list", path |-> "", user |-> "", status |-> "ValueError"]
                /\ UNCHANGED authentication_devices
           ELSE /\ authentication_devices' = WithMetadata(devices)
                /\ device_outcome' = [op |-> "list", path |-> "", user |-> "", status |-> "ok"]
    /\ UNCHANGED <<authenticators, _cached_keypairs, pc, call, generated, calls, clients,
                   engine_vars, aggregator_vars>>

\* initialize_authenticator(authenticator_path, user): it raises when the folder is
\* initialized already or cannot be written (can_write false); otherwise it writes the
\* metadata and returns them.
InitializeAuthenticatorFails(authenticator_path, can_write) ==
    is_authenticator_initialized(authenticator_path) \/ ~can_write

initialize_authenticator(authenticator_path, user) ==
    [user |-> user, device_uid |-> authenticator_path]

\* Mutant of initialize_authentication_device: the record is marked as initialized before
\* initialize_authenticator is called.
initialize_authentication_device_MarkedFirst(i, user, can_write) ==
    /\ i \in 1..Len(authentication_devices)
    /\ LET authentication_device == authentication_devices[i]
           authenticator_path == _get_authenticator_path(authentication_device)
           metadata == initialize_authenticator(authenticator_path, user)
       IN  IF authentication_device.is_initialized
           THEN /\ device_outcome' = [op |-> "initialize", path |-> authenticator_path, user |-> user,
                                   status |-> "AssertionError"]
                /\ UNCHANGED <<authenticators, authentication_devices>>
           ELSE IF InitializeAuthenticatorFails(authenticator_path, can_write)
           THEN /\ device_outcome' = [op |-> "initialize", path |-> authenticator_path, user |-> user,
                                   status |-> "Exception"]
                /\ authentication_devices' =
                       [authentication_devices EXCEPT ![i].is_initialized = TRUE]
                /\ UNCHANGED authenticators
           ELSE /\ authenticators' = [authenticators EXCEPT ![authenticator_path] = metadata]
                /\ authentication_devices' =
                       [authentication_devices EXCEPT ![i].is_initialized = TRUE,
                                                      ![i].metadata = <<metadata>>]
                /\ device_outcome' = [op |-> "initialize", path |-> authenticator_path, user |-> user,
                                   status |-> "ok"]
    /\ UNCHANGED <<_cached_keypairs, pc, call, generated, calls, clients,
                   engine_vars, aggregator_vars>>

\* initialize_authentication_device(authentication_device, user), the record being the
\* i-th the caller holds.
initialize_authentication_device(i, user, can_write) ==
    /\ i \in 1..Len(authentication_devices)
    /\ LET authentication_device == authentication_devices[i]
           authenticator_path == _get_authenticator_path(authentication_device)
           metadata == initialize_authenticator(authenticator_path, user)
       IN  IF authentication_device.is_initialized
           THEN /\ device_outcome' = [op |-> "initialize", path |-> authenticator_path, user |-> user,
                                   status |-> "AssertionError"]
                /\ UNCHANGED <<authenticators, authentication_devices>>
           ELSE IF InitializeAuthenticatorFails(authenticator_path, can_write)
           THEN /\ device_outcome' = [op |-> "initialize", path |-> authenticator_path, user |-> user,
                                   status |-> "Exception"]
                /\ UNCHANGED <<authenticators, authentication_devices>>
           ELSE /\ authenticators' = [authenticators EXCEPT ![authenticator_path] = metadata]
                /\ authentication_devices' =
                       [authentication_devices EXCEPT ![i].is_initialized = TRUE,
                                                      ![i].metadata = <<metadata>>]
                /\ device_outcome' = [op |-> "initialize", path |-> authenticator_path, user |-> user,
                                   status |-> "ok"]
    /\ UNCHANGED <<_cached_keypairs, pc, call, generated, calls, clients,
                   engine_vars, aggregator_vars>>

\* Outside the program: the metadata file of an initialized USB key gets corrupted.
MetadataCorrupted(path) ==
    /\ authenticators[path] \in Metadata
    /\ authenticators' = [authenticators EXCEPT ![path] = Corrupted]
    /\ UNCHANGED <<authentication_devices, device_outcome, _cached_keypairs, pc, call,
                   generated, calls, clients, engine_vars, aggregator_vars>>

\* No device operation made yet, no record held.
DevicesIdle ==
    /\ authentication_devices = <<>>
    /\ device_outcome = [op |-> "none", path |-> "", user |-> "", status |-> "none"]

\* No USB key looked at: the devices' variables while other parts are exercised.
NoDevices ==
    /\ authenticators = [path \in {"E:", "F:"} |-> NotInitialized]
    /\ DevicesIdle

-----------------------------------------------------------------------------
(* Specifications *)

\* DummyKeyStorage() and EscrowApi(key_storage) just constructed, no call made yet.
Constructed ==
    /\ _cached_keypairs = << >>
    /\ pc = [t \in Threads |-> "idle"]
    /\ call = [t \in Threads |-> NoCall]
    /\ generated = 0
    /\ calls = 0

\* Client threads calling concurrently: any thread takes the next step.
Init == Constructed /\ clients = "concurrent" /\ EngineIdle /\ AggregatorIdle /\ NoDevices

\* Clients calling one after the other: a call starts only while no thread is inside a call.
SeqInit ==
    Constructed /\ clients = "sequential" /\ EngineIdle /\ AggregatorIdle /\ NoDevices

Next ==
    \E t \in Threads :
        \/ Call_KeyStorage_set_keys(t)
        \/ Call_KeyStorage_get_public_key(t)
        \/ Call_KeyStorage_get_private_key(t)
        \/ Call_get_public_key(t)
        \/ Call_get_message_signature(t)
        \/ Call_decrypt_with_private_key(t)
        \/ KeyStorageGetPublicKey(t)
        \/ KeyStorageGetPrivateKey(t)
        \/ SetKeysCheck(t)
        \/ SetKeysStore(t)
        \/ EnsureKeypairExists(t)
        \/ GetPublicKeyReturn(t)
        \/ GetMessageSignatureReturn(t)
        \/ DecryptAssert(t)
        \/ DecryptReturn(t)

Spec == Init /\ [][Next]_vars

SeqSpec == SeqInit /\ [][Next]_vars

\* The key storage of the escrow when the engine is first called, with the count of
\* keypairs generated till then: just constructed; or holding for a keychain uid the
\* keypair an earlier escrow call generated; or holding for it a keypair with an empty
\* public key, written by KeyStorage.set_keys.
StoragesBeforeEngine ==
    {<<(<<>>), 0>>}
    \cup { <<[k \in {<<keychain_uid, "RSA">>} |-> generate_asymmetric_keypair(1)], 1>> :
             keychain_uid \in KeychainUids }
    \cup { <<[k \in {<<keychain_uid, "RSA">>} |->
                [public_key |-> EmptyBytes, private_key |-> BytesPrivate]], 0>> :
             keychain_uid \in KeychainUids }

\* The cascade engine given a policy and a plaintext: it encrypts, then decrypts.
CascadeInit ==
    /\ \E storage \in StoragesBeforeEngine :
           /\ _cached_keypairs = storage[1]
           /\ generated = storage[2]
    /\ pc = [t \in Threads |-> "idle"]
    /\ call = [t \in Threads |-> NoCall]
    /\ calls = 0
    /\ clients = "sequential"
    /\ encryption_conf \in EncryptionConfs
    /\ data \in Plaintexts
    /\ container = NoContainer
    /\ result = NoResult
    /\ AggregatorIdle
    /\ NoDevices

CascadeNext ==
    \/ EncryptDataIntoContainer
    \/ DecryptDataFromContainer

CascadeSpec == CascadeInit /\ [][CascadeNext]_vars

\* The aggregator given records and flushed, in any order.
AggregatorInit ==
    Constructed /\ clients = "sequential" /\ EngineIdle /\ AggregatorIdle /\ NoDevices

AggregatorNext ==
    \/ \E record \in Records : add_record(record)
    \/ _flush_aggregated_data

AggregatorSpec == AggregatorInit /\ [][AggregatorNext]_vars

\* USB keys mounted, each with an authenticator folder in any state; the caller lists
\* them and initializes those it has records of.
DeviceInit ==
    /\ Constructed /\ clients = "sequential" /\ EngineIdle /\ AggregatorIdle
    /\ authenticators \in [{"E:", "F:"} -> {NotInitialized, Corrupted} \cup Metadata]
    /\ \A path \in {"E:", "F:"} :
           authenticators[path] \in Metadata => authenticators[path].device_uid = path
    /\ DevicesIdle

DeviceNext ==
    \/ list_available_authentication_devices
    \/ \E i \in 1..Len(MountedPaths), user \in Users, can_write \in BOOLEAN :
           initialize_authentication_device(i, user, can_write)
    \/ \E path \in {"E:", "F:"} : MetadataCorrupted(path)

DeviceSpec == DeviceInit /\ [][DeviceNext]_vars

-----------------------------------------------------------------------------
(* Vocabulary of the properties *)

\* The dictionary key of thread t's current or last call.
KeyOf(t) == <<call[t].keychain_uid, call[t].key_type>>

\* Thread t's last call was to op and has ended (returned or raised).
Ended(t, op) == pc[t] = "idle" /\ call[t].op = op

\* Thread t's last call was to op and returned normally.
Returned(t, op) == Ended(t, op) /\ call[t].outcome = "ok"

\* In this step thread t's call to op ends.
Ends(t, op) == pc[t] # "idle" /\ pc'[t] = "idle" /\ call[t].op = op

EscrowOps == {"get_public_key", "get_message_signature", "decrypt_with_private_key"}

-----------------------------------------------------------------------------
(* C1..C3: the key storage contract *)

\* C1: with clients calling one after the other, a set_keys call for a (keychain uid,
\* key type) that already holds a keypair (some earlier set_keys succeeded for it)
\* raises RuntimeError, whatever key bytes it passes, and leaves the stored keypair,
\* that of the first successful call, as it is.
C1_SetKeysFailsOnExistingKeypair ==
    [][\A t \in Threads :
          (Ends(t, "KeyStorage.set_keys") /\ KeyOf(t) \in DOMAIN _cached_keypairs)
              => /\ call'[t].outcome = "RuntimeError"
                 /\ _cached_keypairs' = _cached_keypairs]_vars

\* C1 witness: after a first successful set_keys, one client has been refused with the
\* very bytes that are stored and another with different bytes.
C1_Witness ==
    \E t, u \in Threads :
        /\ t # u
        /\ Ended(t, "KeyStorage.set_keys") /\ call[t].outcome = "RuntimeError"
        /\ Ended(u, "KeyStorage.set_keys") /\ call[u].outcome = "RuntimeError"
        /\ KeyOf(t) = KeyOf(u)
        /\ KeyOf(t) \in DOMAIN _cached_keypairs
        /\ _cached_keypairs[KeyOf(t)].public_key = call[t].public_key
        /\ _cached_keypairs[KeyOf(t)].private_key = call[t].private_key
        /\ _cached_keypairs[KeyOf(t)].public_key # call[u].public_key
        /\ _cached_keypairs[KeyOf(t)].private_key # call[u].private_key

\* C2: with clients calling one after the other, a keypair once stored for a (keychain
\* uid, key type) is never changed nor removed by any step of any operation: the pair
\* holds nothing or what the first successful set_keys wrote.
C2_KeypairWriteOnce ==
    [][\A k \in DOMAIN _cached_keypairs :
          /\ k \in DOMAIN _cached_keypairs'
          /\ _cached_keypairs'[k] = _cached_keypairs[k]]_vars

\* C2 witness: a keypair stored by a direct set_keys is still there after a second
\* set_keys for it was refused and an escrow operation for it has ended.
C2_Witness ==
    \E t, u \in Threads :
        /\ Ended(t, "KeyStorage.set_keys") /\ call[t].outcome = "RuntimeError"
        /\ call[u].op \in EscrowOps /\ pc[u] = "idle"
        /\ KeyOf(t) = KeyOf(u)
        /\ KeyOf(t) \in DOMAIN _cached_keypairs
        /\ _cached_keypairs[KeyOf(t)] \in DirectKeypairs

\* C3: DummyKeyStorage.get_public_key and get_private_key never raise; they return the
\* stored bytes when a keypair is stored for exactly the (keychain uid, key type) asked,
\* empty bytes included, and None when none is, whatever is stored for other pairs.
C3_GettersReturnStoredBytesOrNone ==
    [][\A t \in Threads :
          /\ Ends(t, "KeyStorage.get_public_key") =>
                /\ call'[t].outcome = "ok"
                /\ IF KeyOf(t) \in DOMAIN _cached_keypairs
                   THEN /\ call'[t].ret = _cached_keypairs[KeyOf(t)].public_key
                        /\ call'[t].ret # None
                   ELSE call'[t].ret = None
          /\ Ends(t, "KeyStorage.get_private_key") =>
                /\ call'[t].outcome = "ok"
                /\ IF KeyOf(t) \in DOMAIN _cached_keypairs
                   THEN /\ call'[t].ret = _cached_keypairs[KeyOf(t)].private_key
                        /\ call'[t].ret # None
                   ELSE call'[t].ret = None]_vars

\* C3 witness: one client got the stored empty public key back as empty bytes, while
\* another got None for a pair that differs from it in the key type only.
C3_Witness ==
    \E t, u \in Threads :
        /\ Returned(t, "KeyStorage.get_public_key")
        /\ call[t].ret = EmptyBytes
        /\ KeyOf(t) \in DOMAIN _cached_keypairs
        /\ Returned(u, "KeyStorage.get_public_key")
        /\ call[u].ret = None
        /\ call[u].keychain_uid = call[t].keychain_uid
        /\ call[u].key_type # call[t].key_type

-----------------------------------------------------------------------------
(* C4..C6: concurrent clients *)

\* C4: of two clients that are inside escrow operations for the same (keychain uid, key
\* type) at the same time, at most one generates a keypair and goes on to set_keys; and
\* two get_public_key calls that returned for the pair returned the same public key.
C4_OneKeypairGeneratedPerPair ==
    \A t, u \in Threads :
        (t # u /\ call[t].op \in EscrowOps /\ call[u].op \in EscrowOps /\ KeyOf(t) = KeyOf(u))
            => /\ (pc[t] # "idle" /\ pc[u] # "idle")
                      => ~(call[t].keypair # 0 /\ call[u].keypair # 0)
               /\ (Returned(t, "get_public_key") /\ Returned(u, "get_public_key"))
                      => call[t].ret = call[u].ret

\* C5: no escrow operation ends with the storage's RuntimeError ("already existing key")
\* because another escrow caller provisioned the pair meanwhile: the client that lost
\* the creation race reads the winner's keypair and completes.  (Keypairs stored by
\* direct set_keys calls are set aside: an empty public key stored that way makes the
\* escrow raise without any race, which is C7's case.)
C5_RaceLoserCompletes ==
    \A t \in Threads :
        (pc[t] = "idle" /\ call[t].op \in EscrowOps /\ call[t].outcome = "RuntimeError")
            => _cached_keypairs[KeyOf(t)] \notin
                   { generate_asymmetric_keypair(n) : n \in 1..generated }

\* C6: of two clients whose DummyKeyStorage.set_keys calls for the same (keychain uid,
\* key type) have ended, at most one succeeded, and the stored keypair is the one the
\* successful call passed.
C6_OneSetKeysWinner ==
    \A t, u \in Threads :
        (t # u /\ Ended(t, "KeyStorage.set_keys") /\ Ended(u, "KeyStorage.set_keys")
               /\ KeyOf(t) = KeyOf(u))
            => /\ ~(call[t].outcome = "ok" /\ call[u].outcome = "ok")
               /\ call[t].outcome = "ok" =>
                      _cached_keypairs[KeyOf(t)] =
                          [public_key |-> call[t].public_key, private_key |-> call[t].private_key]

-----------------------------------------------------------------------------
(* C7..C10: the escrow, clients calling one after the other *)

\* C7: with clients calling one after the other, whatever was done before, two
\* get_public_key calls of the escrow for the same (keychain uid, key type) both return,
\* with the same public key, and at most the first of them generated a keypair and
\* called set_keys.
C7_GetPublicKeyTwice ==
    \A t, u \in Threads :
        (t # u /\ Ended(t, "get_public_key") /\ Ended(u, "get_public_key")
               /\ KeyOf(t) = KeyOf(u))
            => /\ call[t].outcome = "ok" /\ call[u].outcome = "ok"
               /\ call[t].ret = call[u].ret
               /\ ~(call[t].keypair # 0 /\ call[u].keypair # 0)

\* C8: what an escrow operation returns is never private key bytes: get_public_key
\* returns the public half stored for the pair, which is not the (non empty) private
\* half of any stored keypair; get_message_signature returns a signature structure, a
\* type and a digest that holds no stored private key; decrypt_with_private_key returns
\* a plaintext of the clients' secrets.
C8_NoPrivateKeyReturned ==
    [][\A t \in Threads :
          LET private_keys ==
                  { _cached_keypairs[k].private_key : k \in DOMAIN _cached_keypairs } \ {EmptyBytes}
          IN  /\ (Ends(t, "get_public_key") /\ call'[t].outcome = "ok") =>
                    /\ call'[t].ret = _cached_keypairs[KeyOf(t)].public_key
                    /\ call'[t].ret \notin private_keys
              /\ (Ends(t, "get_message_signature") /\ call'[t].outcome = "ok") =>
                    /\ DOMAIN call'[t].ret = {"type", "digest"}
                    /\ call'[t].ret.type = call[t].signature_algo
                    /\ \A i \in 1..Len(call'[t].ret.digest) :
                           call'[t].ret.digest[i] \notin private_keys
              /\ (Ends(t, "decrypt_with_private_key") /\ call'[t].outcome = "ok") =>
                    call'[t].ret \in Secrets]_vars

\* C8 witness: the three escrow operations have returned for a pair whose private key
\* the storage holds (two of them in the threads' last calls, the keypair generated).
C8_Witness ==
    \E t, u \in Threads :
        /\ Returned(t, "get_public_key")
        /\ Returned(u, "get_message_signature")
        /\ KeyOf(t) = KeyOf(u)
        /\ KeyOf(t) \in DOMAIN _cached_keypairs
        /\ IsPem(_cached_keypairs[KeyOf(t)].private_key)

\* C9: with clients calling one after the other, a signature returned by
\* get_message_signature for a (keychain uid, key type) verifies, over the message signed,
\* against the public key get_public_key returns for the same pair, whichever call came
\* first: it was made with the private half of the one stored keypair.
C9_SignatureVerifiesAgainstEscrowPublicKey ==
    \A t, u \in Threads :
        (Returned(t, "get_public_key") /\ Returned(u, "get_message_signature")
            /\ KeyOf(t) = KeyOf(u))
            => /\ IsPem(call[t].ret)
               /\ verify_message_signature(call[u].message, call[u].ret,
                      load_asymmetric_key_from_pem_bytestring(call[t].ret),
                      call[u].signature_algo)
               /\ call[u].ret = sign_message(call[u].message, call[u].signature_algo,
                      load_asymmetric_key_from_pem_bytestring(
                          _cached_keypairs[KeyOf(u)].private_key))

\* C9 witness: a signature was returned by a call that provisioned the keypair itself,
\* and get_public_key was called only afterwards.
C9_Witness ==
    \E t, u \in Threads :
        /\ Returned(t, "get_public_key") /\ call[t].keypair = 0
        /\ Returned(u, "get_message_signature") /\ call[u].keypair # 0
        /\ KeyOf(t) = KeyOf(u)

\* C10: with clients calling one after the other, decrypt_with_private_key for
\* (keychain uid, RSA) with RSA_OAEP, given a secret encrypted under the public key that
\* get_public_key returns for (keychain uid, RSA), returns exactly that secret.
C10_WrapUnwrapRoundTrip ==
    \A t, u \in Threads, secret \in Secrets :
        (/\ Returned(t, "get_public_key")
         /\ IsPem(call[t].ret)
         /\ Ended(u, "decrypt_with_private_key")
         /\ KeyOf(t) = KeyOf(u)
         /\ call[u].key_type = "RSA"
         /\ call[u].encryption_algo = "RSA_OAEP"
         /\ call[u].cipherdict =
                _encrypt_via_rsa_oaep(secret, load_asymmetric_key_from_pem_bytestring(call[t].ret)))
            => /\ call[u].outcome = "ok"
               /\ call[u].ret = secret

\* C10 witness: a secret of several chunks came back from the decryption.
C10_Witness ==
    \E t, u \in Threads :
        /\ Returned(t, "get_public_key")
        /\ Returned(u, "decrypt_with_private_key")
        /\ KeyOf(t) = KeyOf(u)
        /\ Len(call[u].cipherdict.digest_list) > 1
        /\ call[u].ret = <<6, 7, 8>>

-----------------------------------------------------------------------------
(* C11..C13: rejections *)

\* The one supported (key type, encryption algorithm) pair, names taken in any case.
SupportedPair(key_type, encryption_algo) ==
    key_type \in {"RSA", "rsa"} /\ encryption_algo \in {"RSA_OAEP", "rsa_oaep"}

\* C11: a decrypt_with_private_key call whose (key type, encryption algorithm) is not the
\* supported pair takes one step only: it raises AssertionError, having read nothing
\* from the key storage, generated no keypair and left the stored keypairs as they were.
C11_UnsupportedPairRejectedFirst ==
    [][\A t \in Threads :
          (/\ call[t].op = "decrypt_with_private_key"
           /\ ~SupportedPair(call[t].key_type, call[t].encryption_algo)
           /\ pc[t] # "idle"
           /\ pc'[t] # pc[t])
              => /\ pc[t] = "decrypt_with_private_key"
                 /\ pc'[t] = "idle"
                 /\ call'[t].outcome = "AssertionError"
                 /\ call'[t].ret = None
                 /\ call'[t].keypair = 0
                 /\ _cached_keypairs' = _cached_keypairs
                 /\ generated' = generated]_vars

\* C11 witness: one call was rejected for its encryption algorithm and another for its
\* key type, both for a pair the storage holds no keypair for.
C11_Witness ==
    \E t, u \in Threads :
        /\ Ended(t, "decrypt_with_private_key") /\ call[t].outcome = "AssertionError"
        /\ call[t].key_type = "RSA" /\ call[t].encryption_algo = "AES_EAX"
        /\ Ended(u, "decrypt_with_private_key") /\ call[u].outcome = "AssertionError"
        /\ call[u].key_type = "DSA" /\ call[u].encryption_algo = "rsa_oaep"
        /\ KeyOf(t) \notin DOMAIN _cached_keypairs
        /\ KeyOf(u) \notin DOMAIN _cached_keypairs

\* Whether a cipherdict holds a chunk whose length is not that of the RSA modulus.
HasBadLengthChunk(cipherdict) ==
    \E i \in 1..Len(cipherdict.digest_list) : cipherdict.digest_list[i].size # RSA_MODULUS_SIZE

\* The keypairs the escrow has generated.
GeneratedKeypairs == { generate_asymmetric_keypair(n) : n \in 1..generated }

\* C12: with clients calling one after the other, a decrypt_with_private_key call given
\* a cipherdict that holds a chunk of a wrong length never returns: it raises and gives
\* no plaintext, and the step that raises leaves the stored keypairs as they are.  When
\* the cipherdict is a secret encrypted under the escrow's public key for the pair, with
\* a chunk of a wrong length appended, the error is ValueError "Ciphertext with incorrect
\* length.", and a call for the same pair given the cipherdict without that chunk
\* returns the secret.
C12_BadLengthChunkRejected ==
    /\ [](\A t \in Threads :
            (Ended(t, "decrypt_with_private_key") /\ HasBadLengthChunk(call[t].cipherdict))
                => /\ call[t].outcome # "ok"
                   /\ call[t].ret = None)
    /\ [](\A t, u \in Threads, secret \in Secrets :
            (/\ Ended(t, "decrypt_with_private_key")
             /\ SupportedPair(call[t].key_type, call[t].encryption_algo)
             /\ KeyOf(t) \in DOMAIN _cached_keypairs
             /\ _cached_keypairs[KeyOf(t)] \in GeneratedKeypairs
             /\ call[t].cipherdict =
                    Tampered(_encrypt_via_rsa_oaep(secret,
                        load_asymmetric_key_from_pem_bytestring(
                            _cached_keypairs[KeyOf(t)].public_key))))
                => /\ call[t].outcome = "ValueError"
                   /\ call[t].error = "Ciphertext with incorrect length."
                   /\ (/\ Ended(u, "decrypt_with_private_key")
                       /\ KeyOf(u) = KeyOf(t)
                       /\ call[u].encryption_algo = call[t].encryption_algo
                       /\ Tampered(call[u].cipherdict) = call[t].cipherdict)
                          => /\ call[u].outcome = "ok"
                             /\ call[u].ret = secret)
    /\ [][\A t \in Threads :
            (Ends(t, "decrypt_with_private_key") /\ HasBadLengthChunk(call[t].cipherdict))
                => _cached_keypairs' = _cached_keypairs]_vars

\* C12 witness: a call given a secret of several chunks encrypted under the escrow's
\* key, with a chunk appended, was refused for the length, and the call given the
\* encrypted secret itself returned it.
C12_Witness ==
    \E t, u \in Threads :
        /\ Ended(t, "decrypt_with_private_key")
        /\ call[t].error = "Ciphertext with incorrect length."
        /\ Len(call[t].cipherdict.digest_list) = 3
        /\ Returned(u, "decrypt_with_private_key")
        /\ KeyOf(u) = KeyOf(t)
        /\ Tampered(call[u].cipherdict) = call[t].cipherdict
        /\ call[u].ret = <<6, 7, 8>>
        /\ _cached_keypairs[KeyOf(t)] \in GeneratedKeypairs

\* The signatures a client makes of one it received: signature["digest"] += b"xyz", and
\* the digest cut by its last byte.
TamperedSignatures(signature) ==
    { [signature EXCEPT !.digest = @ \o <<120, 121, 122>>],
      [signature EXCEPT !.digest = SubSeq(@, 1, Len(@) - 1)] }

\* C13: with clients calling one after the other, the signature get_message_signature
\* returned for a (keychain uid, key type) verifies against the public key
\* get_public_key returned for the pair, and no signature made of it by appending bytes
\* to its digest, or by cutting the digest, does: verify_message_signature raises
\* ValueError("Incorrect signature") for each of them.
C13_TamperedSignatureRejected ==
    \A t, u \in Threads :
        (Returned(t, "get_public_key") /\ Returned(u, "get_message_signature")
            /\ KeyOf(t) = KeyOf(u))
            => LET public_key == load_asymmetric_key_from_pem_bytestring(call[t].ret)
               IN  /\ verify_message_signature(call[u].message, call[u].ret,
                                               public_key, call[u].signature_algo)
                   /\ \A signature \in TamperedSignatures(call[u].ret) :
                          ~verify_message_signature(call[u].message, signature,
                                                    public_key, call[u].signature_algo)

\* C13 witness: a DSA signature was returned for a pair whose keypair an earlier
\* get_public_key call had provisioned.
C13_Witness ==
    \E t, u \in Threads :
        /\ Returned(t, "get_public_key") /\ call[t].keypair # 0
        /\ Returned(u, "get_message_signature") /\ call[u].keypair = 0
        /\ KeyOf(t) = KeyOf(u)
        /\ call[u].key_type = "DSA"
        /\ Len(call[u].ret.digest) = Len(call[u].message) + 1

-----------------------------------------------------------------------------
(* C14: the cascade *)

\* C14: for every supported policy, ENCRYPTION_CONF among them, every plaintext and
\* every key storage the escrow may start with, the decryption of the container the
\* encryption made, which undoes the strata and the layers of each in reverse order,
\* succeeds and returns exactly the plaintext (an encryption the escrow's exception ended
\* made no container).
C14_CascadeRoundTrip ==
    (container # NoContainer /\ result # NoResult)
        => (result.status = "ok" /\ result.data = data)

\* C14 witness: a non empty plaintext came back through two strata of different
\* algorithms, one with its key wrapped twice, one signed.
C14_Witness ==
    /\ result.status = "ok"
    /\ Len(data) > 0
    /\ Len(container.data_encryption_strata) = 2
    /\ container.data_encryption_strata[1].data_encryption_algo
           # container.data_encryption_strata[2].data_encryption_algo
    /\ Len(container.data_encryption_strata[1].key_encryption_strata) = 2
    /\ Len(container.data_encryption_strata[2].signatures) = 1

-----------------------------------------------------------------------------
(* C15: the records aggregator *)

\* The archive a container holds: its ciphertext with every stratum peeled.
RECURSIVE Peel(_, _)
Peel(data_current, strata) ==
    IF strata = 0 THEN data_current
    ELSE Peel(load_from_json_bytes(data_current).ciphertext, strata - 1)

ArchiveIn(stored) == Peel(stored.data_ciphertext, Len(stored.data_encryption_strata))

\* C15: whatever add_record and flush operations came before, an explicit flush of a
\* non empty buffer adds exactly one container, made of the archive of all the buffered
\* records, and empties the buffer, and an explicit flush of an empty buffer adds none
\* and changes nothing; add_record of a record that ends more than max_duration_s after
\* the window start flushes the buffer, that record included, into exactly one
\* container, and add_record of any other record only appends it to the buffer.
C15_OneContainerPerFlush ==
    [][/\ _flush_aggregated_data =>
            IF Len(buffer) = 0
            THEN containers' = containers /\ buffer' = buffer
            ELSE /\ Len(containers') = Len(containers) + 1
                 /\ SubSeq(containers', 1, Len(containers)) = containers
                 /\ ArchiveIn(containers'[Len(containers')]) = Archive(buffer)
                 /\ buffer' = <<>>
       /\ \A record \in Records :
            add_record(record) =>
                LET start == IF Len(buffer) = 0 THEN record.from_datetime ELSE window_start
                IN  IF record.to_datetime - start > max_duration_s
                    THEN /\ Len(containers') = Len(containers) + 1
                         /\ SubSeq(containers', 1, Len(containers)) = containers
                         /\ ArchiveIn(containers'[Len(containers')])
                                = Archive(Append(buffer, record))
                         /\ buffer' = <<>>
                    ELSE /\ containers' = containers
                         /\ buffer' = Append(buffer, record)]_vars

\* C15 witness: two containers were produced, the second holding two records, the buffer
\* is empty and all the records allowed have been added.
C15_Witness ==
    /\ Len(containers) = 2
    /\ Len(ArchiveIn(containers[2])) = 2
    /\ buffer = <<>>
    /\ added = MaxRecords

-----------------------------------------------------------------------------
(* C16..C18: what the escrow does to the key storage *)

\* C16: under concurrent callers too, once an escrow operation for a (keychain uid, key
\* type) is past _ensure_keypair_exists, and ever after it has returned or raised
\* (decrypt_with_private_key having passed its assertions), the key storage holds a
\* keypair for the pair, be the operation the first ever made for the keychain uid;
\* and get_public_key, when it returns, returns bytes, never None.
C16_EscrowOperationEnsuresKeypair ==
    \A t \in Threads :
        /\ (/\ call[t].op \in EscrowOps
            /\ pc[t] \in {"after_ensure", "idle"}
            /\ call[t].outcome # "AssertionError")
               => KeyOf(t) \in DOMAIN _cached_keypairs
        /\ Returned(t, "get_public_key") => call[t].ret # None

\* C16 witness: a decrypt_with_private_key call and a get_message_signature call, each
\* the first call made for its keychain uid, have returned after provisioning the keypair.
C16_Witness ==
    \E t, u \in Threads :
        /\ Returned(t, "decrypt_with_private_key") /\ call[t].keypair # 0
        /\ Returned(u, "get_message_signature") /\ call[u].keypair # 0
        /\ call[t].keychain_uid # call[u].keychain_uid
        /\ DOMAIN _cached_keypairs = {KeyOf(t), KeyOf(u)}

\* C17: under concurrent callers too, in every state and for every (keychain uid, key
\* type), get_public_key gives None exactly when get_private_key gives None; every
\* change of the stored keypairs is one set_keys storing the public and the private key
\* it was given under its pair, nothing else changing; and the step in which a set_keys
\* call is refused leaves the stored keypairs as they are.
C17_BothHalvesOrNeither ==
    /\ [](\A keychain_uid \in KeychainUids, key_type \in KeyTypes :
            KeyStorage_get_public_key(keychain_uid, key_type) = None
                <=> KeyStorage_get_private_key(keychain_uid, key_type) = None)
    /\ [][/\ _cached_keypairs' # _cached_keypairs =>
                \E t \in Threads :
                    /\ pc[t] = "set_keys_store"
                    /\ _cached_keypairs' =
                           [k \in DOMAIN _cached_keypairs \cup {KeyOf(t)} |->
                               IF k = KeyOf(t)
                               THEN [public_key |-> call[t].public_key,
                                     private_key |-> call[t].private_key]
                               ELSE _cached_keypairs[k]]
          /\ \A t \in Threads :
                (pc[t] = "set_keys" /\ pc'[t] = "idle")
                    => /\ call'[t].outcome = "RuntimeError"
                       /\ _cached_keypairs' = _cached_keypairs]_vars

\* C17 witness: the storage holds a keypair whose public key is empty and a keypair the
\* escrow generated, and a set_keys call has been refused.
C17_Witness ==
    /\ \E k \in DOMAIN _cached_keypairs : _cached_keypairs[k].public_key = EmptyBytes
    /\ \E k \in DOMAIN _cached_keypairs : _cached_keypairs[k] \in GeneratedKeypairs
    /\ \E t \in Threads : Ended(t, "KeyStorage.set_keys") /\ call[t].outcome = "RuntimeError"

\* C18: with clients calling one after the other, no step of an escrow operation for a
\* (keychain uid, key type) adds, changes or removes the keypair of another pair, and
\* when the pair holds a keypair no step of the operation changes the stored keypairs
\* at all.
C18_EscrowFrame ==
    [][\A t \in Threads :
          (call[t].op \in EscrowOps /\ pc[t] # "idle" /\ pc'[t] # pc[t])
              => /\ \A k \in (DOMAIN _cached_keypairs \cup DOMAIN _cached_keypairs') \ {KeyOf(t)} :
                        /\ k \in DOMAIN _cached_keypairs
                        /\ k \in DOMAIN _cached_keypairs'
                        /\ _cached_keypairs'[k] = _cached_keypairs[k]
                 /\ KeyOf(t) \in DOMAIN _cached_keypairs
                        => _cached_keypairs' = _cached_keypairs]_vars

\* C18 witness: an escrow operation provisioned the keypair of its pair while the storage
\* held the keypair of another pair, and a later escrow operation for the same pair
\* generated nothing.
C18_Witness ==
    \E t, u \in Threads :
        /\ t # u
        /\ call[t].op \in EscrowOps /\ pc[t] = "idle" /\ call[t].keypair # 0
        /\ call[t].outcome = "ok"
        /\ call[u].op \in EscrowOps /\ pc[u] = "idle" /\ call[u].keypair = 0
        /\ call[u].outcome = "ok"
        /\ KeyOf(t) = KeyOf(u)
        /\ \E k \in DOMAIN _cached_keypairs : k # KeyOf(t) /\ _cached_keypairs[k] \in DirectKeypairs

-----------------------------------------------------------------------------
(* C19, C20: authentication devices *)

\* C19: initialize_authentication_device called on a record whose is_initialized is true
\* raises AssertionError and changes nothing; called on a record whose is_initialized is
\* false it either succeeds, and then the record, and no other, has is_initialized true
\* and as metadata the metadata initialize_authenticator returned (the user passed, in
\* the folder of the record's path), or fails, and then the records are as they were,
\* with is_initialized false and no metadata in that one.  So is_initialized of a record
\* goes from false to true only in a successful call, and never back in any call.
C19_InitializeOnce ==
    [][\A i \in 1..Len(MountedPaths), user \in Users, can_write \in BOOLEAN :
          initialize_authentication_device(i, user, can_write) =>
              LET before == authentication_devices[i]
                  after == authentication_devices'[i]
              IN  IF before.is_initialized
                  THEN /\ device_outcome'.status = "AssertionError"
                       /\ authentication_devices' = authentication_devices
                       /\ authenticators' = authenticators
                  ELSE IF device_outcome'.status = "ok"
                  THEN /\ after.is_initialized
                       /\ after.metadata = <<authenticators'[before.path]>>
                       /\ after.metadata[1].user = user
                       /\ after.path = before.path
                       /\ \A j \in 1..Len(authentication_devices) :
                              j # i => authentication_devices'[j] = authentication_devices[j]
                  ELSE /\ device_outcome'.status = "Exception"
                       /\ authentication_devices' = authentication_devices
                       /\ ~after.is_initialized
                       /\ after.metadata = NoneMetadata]_vars

\* C19 witness: of the two records the caller holds, one is initialized, under a user
\* that is not the one of the last call, which was made on it and refused; the other is
\* not, its authenticator folder holding nothing.
C19_Witness ==
    /\ Len(authentication_devices) = 2
    /\ device_outcome.op = "initialize" /\ device_outcome.status = "AssertionError"
    /\ \E i, j \in 1..2 :
           /\ authentication_devices[i].path = device_outcome.path
           /\ authentication_devices[i].is_initialized
           /\ authentication_devices[i].metadata[1].user # device_outcome.user
           /\ ~authentication_devices[j].is_initialized
           /\ authenticators[authentication_devices[j].path] = NotInitialized

\* C20: a call of list_available_authentication_devices that finds an initialized
\* device whose metadata are corrupted raises and returns no list; otherwise it returns
\* one record for each mounted partition, whose metadata field is None when the device
\* is not initialized and the metadata loaded from the device when it is.  In every
\* record the caller holds, the metadata field is None exactly when is_initialized is
\* false.
C20_ListedMetadata ==
    /\ [](\A i \in 1..Len(authentication_devices) :
            authentication_devices[i].metadata = NoneMetadata
                <=> ~authentication_devices[i].is_initialized)
    /\ [][list_available_authentication_devices =>
            IF \E path \in {"E:", "F:"} : authenticators[path] = Corrupted
            THEN /\ device_outcome'.status = "ValueError"
                 /\ authentication_devices' = authentication_devices
            ELSE /\ device_outcome'.status = "ok"
                 /\ Len(authentication_devices') = Len(MountedPaths)
                 /\ \A i \in 1..Len(MountedPaths) :
                        LET device == authentication_devices'[i]
                        IN  /\ device.path = MountedPaths[i]
                            /\ device.is_initialized
                                   <=> authenticators[device.path] # NotInitialized
                            /\ device.metadata =
                                   IF device.is_initialized
                                   THEN <<authenticators[device.path]>>
                                   ELSE NoneMetadata]_vars

\* C20 witness: a listing returned an initialized and a non initialized device, and a
\* later listing was aborted, the metadata of the first being corrupted by then.
C20_Witness ==
    /\ device_outcome.op = "list" /\ device_outcome.status = "ValueError"
    /\ Len(authentication_devices) = 2
    /\ \E i, j \in 1..2 :
           /\ authentication_devices[i].is_initialized
           /\ authentication_devices[i].metadata # NoneMetadata
           /\ authenticators[authentication_devices[i].path] = Corrupted
           /\ ~authentication_devices[j].is_initialized
           /\ authentication_devices[j].metadata = NoneMetadata

====
